---- MODULE Spec2Model ----
(***************************************************************************)
(* A model of src/src/screens/HomeScreen.js: the geohash encoder and       *)
(* decoder, the haversine distance and the HomeScreen component's state.   *)
(*                                                                         *)
(* JavaScript numbers are IEEE-754 binary64.  A number is modelled as a    *)
(* record [neg, hi, lo, sub]:                                              *)
(*   - |value| = (hi * 2^30 + lo) * 2^-52 when sub = 0, the binary64       *)
(*     values that are multiples of 2^-52 (every value the encoder and the *)
(*     decoder compute for the inputs below has this form up to precision  *)
(*     21; additions round to 53 significant bits, ties to even);          *)
(*   - |value| = sub * 2^-1074 when hi = lo = 0: the subnormal numbers     *)
(*     next to zero.                                                       *)
(* Zero is [neg |-> FALSE, hi |-> 0, lo |-> 0, sub |-> 0].                 *)
(***************************************************************************)
EXTENDS Integers, Sequences, FiniteSets, TLC

VARIABLES
    enc,            \* the locals of a call of encodeGeohash
    dec,            \* the locals of a call of decodeGeohashCenter
    hav,            \* a call of haversineMeters: its arguments and its result
    coords,         \* HomeScreen state: the last fix, or Null
    error,
    loading,
    selectedId,
    precision,
    userHash,
    distanceM,
    trueDistanceM,
    task,           \* where the asynchronous getLocation stands
    effect          \* whether the recompute effect is pending

geoVars == <<enc, dec>>

homeVars ==
    <<coords, error, loading, selectedId, precision, userHash, distanceM,
      trueDistanceM, task, effect>>

vars == <<enc, dec, hav, homeVars>>

\* ------------------------------------------------------------ bounds

\* The largest precision encodeGeohash is called with.
MaxPrecision == 21

\* The longest string decodeGeohashCenter is called with directly.
MaxHashLen == 2

\* The largest subnormal coordinate, in units of 2^-1074 degrees.
MaxSub == 2

\* ------------------------------------------------------------ binary64

Limb == 2^30

DegUnit == 2^22

Null == <<>>

Some(v) == <<v>>

Dbl(neg, hi, lo) == [neg |-> neg, hi |-> hi, lo |-> lo, sub |-> 0]

\* The binary64 value of an integer number of degrees.
Deg(n) == Dbl(n < 0, (IF n < 0 THEN -n ELSE n) * DegUnit, 0)

DblIsZero(x) == x.hi = 0 /\ x.lo = 0 /\ x.sub = 0

MagLt(x, y) ==
    \/ x.hi < y.hi
    \/ x.hi = y.hi /\ x.lo < y.lo
    \/ x.hi = y.hi /\ x.lo = y.lo /\ x.sub < y.sub

\* x > y
DblGt(x, y) ==
    IF x.neg = y.neg
    THEN IF x.neg THEN MagLt(x, y) ELSE MagLt(y, x)
    ELSE y.neg

\* x <= y
DblLe(x, y) == ~DblGt(x, y)

MagAdd(x, y) ==
    LET l == x.lo + y.lo
    IN  [hi |-> x.hi + y.hi + (l \div Limb), lo |-> l % Limb]

\* x - y for magnitudes with x >= y
MagSub(x, y) ==
    LET l == x.lo - y.lo
    IN  IF l >= 0 THEN [hi |-> x.hi - y.hi, lo |-> l]
        ELSE [hi |-> x.hi - y.hi - 1, lo |-> l + Limb]

\* The unit in the last place, in units of 2^-52, of a magnitude whose high
\* limb is hi: 1 below 2.0, doubling with every binade above.
RECURSIVE UlpOf(_)
UlpOf(hi) == IF hi < 2 * DegUnit THEN 1 ELSE 2 * UlpOf(hi \div 2)

\* Round a magnitude to 53 significant bits, to nearest, ties to even.
Round53(m) ==
    LET q    == UlpOf(m.hi)
        r    == m.lo % q
        base == m.lo - r
        up   == 2 * r > q \/ (2 * r = q /\ (base \div q) % 2 = 1)
    IN  IF ~up THEN [hi |-> m.hi, lo |-> base]
        ELSE IF base + q = Limb THEN [hi |-> m.hi + 1, lo |-> 0]
        ELSE [hi |-> m.hi, lo |-> base + q]

Signed(neg, m) == Dbl(neg /\ (m.hi # 0 \/ m.lo # 0), m.hi, m.lo)

\* x + y of two numbers with sub = 0
DblAdd(x, y) ==
    IF x.neg = y.neg THEN Signed(x.neg, Round53(MagAdd(x, y)))
    ELSE IF MagLt(x, y) THEN Signed(y.neg, Round53(MagSub(y, x)))
    ELSE Signed(x.neg, Round53(MagSub(x, y)))

\* x / 2 (exact: the magnitudes halved here are even multiples of 2^-52)
DblHalf(x) ==
    Signed(x.neg, [hi |-> x.hi \div 2,
                   lo |-> (x.hi % 2) * (Limb \div 2) + (x.lo \div 2)])

\* (min + max) / 2
Mid(min, max) == DblHalf(DblAdd(min, max))

\* ------------------------------------------------------------ alphabet

BASE32 ==
    << "0", "1", "2", "3", "4", "5", "6", "7", "8", "9", "b", "c", "d", "e",
       "f", "g", "h", "j", "k", "m", "n", "p", "q", "r", "s", "t", "u", "v",
       "w", "x", "y", "z" >>

CharAt_Base32Hex(i) ==
    << "0", "1", "2", "3", "4", "5", "6", "7", "8", "9", "a", "b", "c", "d",
       "e", "f", "g", "h", "i", "j", "k", "l", "m", "n", "o", "p", "q", "r",
       "s", "t", "u", "v" >>[i + 1]

\* BASE32.charAt(i)
CharAt(i) == BASE32[i + 1]

CharMap_WithA(ch) ==
    IF ch = "a" THEN Some(10)
    ELSE IF \E i \in 1..Len(BASE32) : BASE32[i] = ch
    THEN Some((CHOOSE i \in 1..Len(BASE32) : BASE32[i] = ch) - 1)
    ELSE Null

\* CHAR_MAP[ch]: Some(index), or Null for undefined
CharMap(ch) ==
    IF \E i \in 1..Len(BASE32) : BASE32[i] = ch
    THEN Some((CHOOSE i \in 1..Len(BASE32) : BASE32[i] = ch) - 1)
    ELSE Null

\* ------------------------------------------------------------ encodeGeohash

EncIdle ==
    [pc |-> "idle", latitude |-> Deg(0), longitude |-> Deg(0), precision |-> 0,
     idx |-> 0, bit |-> 0, evenBit |-> TRUE, geohash |-> <<>>,
     latMin |-> Deg(-90), latMax |-> Deg(90),
     lonMin |-> Deg(-180), lonMax |-> Deg(180),
     iter |-> 0, lastBit |-> 0]

\* The locals on entry; iter counts the loop's iterations and lastBit keeps the
\* bit the last iteration emitted.
EncodeStart(latitude, longitude, p) ==
    [EncIdle EXCEPT !.pc = "loop", !.latitude = latitude,
                    !.longitude = longitude, !.precision = p]

\* while (geohash.length < precision)
EncodeLoopGuard(e) == Len(e.geohash) < e.precision

Greater_OrEqual(value, mid) == ~DblGt(mid, value)

\* longitude > mid, latitude > mid
Greater(value, mid) == DblGt(value, mid)

Bisect_Swapped(e) ==
    IF e.evenBit
    THEN LET mid == Mid(e.lonMin, e.lonMax)
         IN  IF Greater(e.longitude, mid)
             THEN [e EXCEPT !.idx = 2 * @ + 1, !.lonMax = mid, !.lastBit = 1]
             ELSE [e EXCEPT !.idx = 2 * @, !.lonMin = mid, !.lastBit = 0]
    ELSE LET mid == Mid(e.latMin, e.latMax)
         IN  IF Greater(e.latitude, mid)
             THEN [e EXCEPT !.idx = 2 * @ + 1, !.latMax = mid, !.lastBit = 1]
             ELSE [e EXCEPT !.idx = 2 * @, !.latMin = mid, !.lastBit = 0]

\* The bisection of the active axis
Bisect(e) ==
    IF e.evenBit
    THEN LET mid == Mid(e.lonMin, e.lonMax)
         IN  IF Greater(e.longitude, mid)
             THEN [e EXCEPT !.idx = 2 * @ + 1, !.lonMin = mid, !.lastBit = 1]
             ELSE [e EXCEPT !.idx = 2 * @, !.lonMax = mid, !.lastBit = 0]
    ELSE LET mid == Mid(e.latMin, e.latMax)
         IN  IF Greater(e.latitude, mid)
             THEN [e EXCEPT !.idx = 2 * @ + 1, !.latMin = mid, !.lastBit = 1]
             ELSE [e EXCEPT !.idx = 2 * @, !.latMax = mid, !.lastBit = 0]

EncodeAppend_Prepend(geohash, ch) == <<ch>> \o geohash

\* geohash += BASE32.charAt(idx)
EncodeAppend(geohash, ch) == Append(geohash, ch)

\* One iteration of the while loop
EncodeIteration(e) ==
    LET b == [Bisect(e) EXCEPT !.evenBit = ~@, !.iter = @ + 1]
    IN  IF b.bit + 1 = 5
        THEN [b EXCEPT !.geohash = EncodeAppend(@, CharAt(b.idx)),
                       !.bit = 0, !.idx = 0]
        ELSE [b EXCEPT !.bit = @ + 1]

\* One step of the call: an iteration while the guard holds, then the return
EncodeStep(e) ==
    IF e.pc # "loop" THEN e
    ELSE IF EncodeLoopGuard(e) THEN EncodeIteration(e)
    ELSE [e EXCEPT !.pc = "returned"]

\* n steps, split in halves so that the evaluation stays shallow
RECURSIVE EncodeSteps(_, _)
EncodeSteps(e, n) ==
    IF n = 0 \/ e.pc # "loop" THEN e
    ELSE IF n = 1 THEN EncodeStep(e)
    ELSE EncodeSteps(EncodeSteps(e, n \div 2), n - (n \div 2))

\* The loop run to its end: five iterations for each character
EncodeRun(e) == EncodeSteps(e, 5 * (MaxPrecision + 3) + 1)

\* The string encodeGeohash(latitude, longitude, p) returns for precision p
encodeGeohash(latitude, longitude, p) ==
    EncodeRun(EncodeStart(latitude, longitude, p)).geohash

\* ------------------------------------------------------------ decodeGeohashCenter

DecIdle ==
    [pc |-> "idle", hash |-> <<>>, pos |-> 1, cd |-> 0, mask |-> 0,
     evenBit |-> TRUE,
     latMin |-> Deg(-90), latMax |-> Deg(90),
     lonMin |-> Deg(-180), lonMax |-> Deg(180),
     result |-> Null, thrown |-> Null]

\* The locals on entry; pos is the position of the for-of iterator.
DecodeStart(hash) == [DecIdle EXCEPT !.pc = "for", !.hash = hash]

\* The error decodeGeohashCenter throws for ch
InvalidCharacter(ch) == <<"Invalid geohash character: ", ch>>

DecodeCenter_Corner(d) == [lat |-> d.latMin, lon |-> d.lonMin]

\* { lat: (latMin + latMax) / 2, lon: (lonMin + lonMax) / 2 }
DecodeCenter(d) ==
    [lat |-> Mid(d.latMin, d.latMax), lon |-> Mid(d.lonMin, d.lonMax)]

\* The head of the for-of loop: the next character and its lookup, or the return
DecodeNextChar(d) ==
    IF d.pos > Len(d.hash)
    THEN [d EXCEPT !.pc = "returned", !.result = Some(DecodeCenter(d))]
    ELSE LET cd == CharMap(d.hash[d.pos])
         IN  IF cd = Null
             THEN [d EXCEPT !.pc = "threw",
                            !.thrown = Some(InvalidCharacter(d.hash[d.pos]))]
             ELSE [d EXCEPT !.pc = "bits", !.cd = cd[1], !.mask = 16]

\* cd & mask
BitSet(cd, mask) == (cd \div mask) % 2 = 1

\* One iteration of the mask loop
DecodeBit(d) ==
    LET n == IF d.evenBit
             THEN LET mid == Mid(d.lonMin, d.lonMax)
                  IN  IF BitSet(d.cd, d.mask) THEN [d EXCEPT !.lonMin = mid]
                      ELSE [d EXCEPT !.lonMax = mid]
             ELSE LET mid == Mid(d.latMin, d.latMax)
                  IN  IF BitSet(d.cd, d.mask) THEN [d EXCEPT !.latMin = mid]
                      ELSE [d EXCEPT !.latMax = mid]
        m == d.mask \div 2
    IN  IF m >= 1 THEN [n EXCEPT !.evenBit = ~@, !.mask = m]
        ELSE [n EXCEPT !.evenBit = ~@, !.mask = m, !.pc = "for", !.pos = @ + 1]

\* One step of the call
DecodeStep(d) ==
    IF d.pc = "for" THEN DecodeNextChar(d)
    ELSE IF d.pc = "bits" THEN DecodeBit(d)
    ELSE d

\* n steps, split in halves so that the evaluation stays shallow
RECURSIVE DecodeSteps(_, _)
DecodeSteps(d, n) ==
    IF n = 0 \/ d.pc \in {"returned", "threw"} THEN d
    ELSE IF n = 1 THEN DecodeStep(d)
    ELSE DecodeSteps(DecodeSteps(d, n \div 2), n - (n \div 2))

\* The loops run to their end: six steps for each character and the return
DecodeRun(d) == DecodeSteps(d, 6 * Len(d.hash) + 1)

\* The outcome of decodeGeohashCenter(hash): result or thrown
decodeGeohashCenter(hash) == DecodeRun(DecodeStart(hash))

\* ------------------------------------------------------------ inputs

\* 37.785834, -122.406417, -33.856784, 151.215297 as binary64
Lat_p1 == Dbl(FALSE, 158485274, 740383648)
Lon_p1 == Dbl(TRUE, 513409724, 481860992)
Lat_p2 == Dbl(TRUE, 142005644, 599508704)
Lon_p2 == Dbl(FALSE, 634242925, 73323648)

LatInputs ==
    {Deg(-91), Deg(-90), Lat_p2, Deg(0), Lat_p1, Deg(45), Deg(90), Deg(91)}

LonInputs ==
    {Deg(-181), Deg(-180), Lon_p1, Deg(-90), Deg(0), Deg(90), Lon_p2,
     Deg(180), Deg(181)}

PrecisionInputs == -1..MaxPrecision

\* Characters of the alphabet and characters outside it
HashChars == {"0", "7", "9", "b", "s", "z", "a", "i", "l", "o", "A", "!"}

RECURSIVE SeqsUpTo(_, _)
SeqsUpTo(S, n) ==
    IF n = 0 THEN {<<>>}
    ELSE LET shorter == SeqsUpTo(S, n - 1)
         IN  shorter \cup {Append(s, c) : s \in shorter, c \in S}

HashInputs == SeqsUpTo(HashChars, MaxHashLen)

\* ------------------------------------------------------------ haversineMeters

(***************************************************************************)
(* The distance is computed with Math.sin, Math.cos, Math.sqrt and         *)
(* Math.atan2.  The model follows each intermediate value by its magnitude *)
(* class, which decides whether the result is zero:                        *)
(*   "zero"       the value 0;                                             *)
(*   "subnormal"  n * 2^-1074 for a small n > 0 (in absolute value);       *)
(*   "nonzero"    a value that is not zero and that no operation of the    *)
(*                formula brings down to zero: the differences the model   *)
(*                feeds in are at least 2^-52 degrees, their half-angle    *)
(*                sines at least 1e-18, and cos(toRad(lat)) is at least    *)
(*                6.1e-17, since the binary64 nearest pi/2 is not pi/2.    *)
(***************************************************************************)
MZero == [k |-> "zero", n |-> 0]

MSub(n) == IF n = 0 THEN MZero ELSE [k |-> "subnormal", n |-> n]

MNonzero == [k |-> "nonzero", n |-> 0]

\* The subnormal n * 2^-1074
Subnormal(n) ==
    [neg |-> n < 0, hi |-> 0, lo |-> 0, sub |-> IF n < 0 THEN -n ELSE n]

SignedSub(x) == IF x.neg THEN -x.sub ELSE x.sub

Main(x) == Signed(x.neg, x)

Negate(x) == Signed(~x.neg, x)

\* x - y: exact between subnormals; otherwise the difference of the parts
\* that are multiples of 2^-52, which absorbs a subnormal operand
DblSub(x, y) ==
    IF x.hi = 0 /\ x.lo = 0 /\ y.hi = 0 /\ y.lo = 0
    THEN Subnormal(SignedSub(x) - SignedSub(y))
    ELSE DblAdd(Main(x), Negate(Main(y)))

\* a / b rounded to nearest, ties to even, for a >= 0 and b > 0
RoundDiv(a, b) ==
    LET q == a \div b
        r == a % b
    IN  IF 2 * r > b \/ (2 * r = b /\ q % 2 = 1) THEN q + 1 ELSE q

\* (v * Math.PI) / 180: both operations round; 355/113 stands for Math.PI,
\* close enough to round n * Math.PI alike for the subnormals of the model
toRad(v) ==
    IF DblIsZero(v) THEN MZero
    ELSE IF v.hi = 0 /\ v.lo = 0
    THEN MSub(RoundDiv(RoundDiv(v.sub * 355, 113), 180))
    ELSE MNonzero

\* x / 2
HalfOf(x) == IF x.k = "subnormal" THEN MSub(RoundDiv(x.n, 2)) ELSE x

\* Math.sin(x): x itself for a zero or subnormal x
Sin(x) == x

\* Math.cos(x): 1 for a zero or subnormal x, and never zero
Cos(x) == MNonzero

\* x ** 2: the square of a subnormal underflows to zero
Square(x) == IF x.k = "nonzero" THEN MNonzero ELSE MZero

\* x * y, for operands that are zero or nonzero
Times(x, y) == IF x.k = "zero" \/ y.k = "zero" THEN MZero ELSE MNonzero

\* x + y, for operands that are zero or nonzero and not negative
Plus(x, y) == IF x.k = "zero" /\ y.k = "zero" THEN MZero ELSE MNonzero

HavA_Product(dLat, dLon, lat1, lat2) ==
    Times(Square(Sin(HalfOf(dLat))),
          Times(Times(Cos(toRad(lat1)), Cos(toRad(lat2))),
                Square(Sin(HalfOf(dLon)))))

\* a = sin(dLat / 2) ** 2 + cos(toRad(lat1)) * cos(toRad(lat2)) * sin(dLon / 2) ** 2
HavA(dLat, dLon, lat1, lat2) ==
    Plus(Square(Sin(HalfOf(dLat))),
         Times(Times(Cos(toRad(lat1)), Cos(toRad(lat2))),
               Square(Sin(HalfOf(dLon)))))

\* c = 2 * atan2(sqrt(a), sqrt(1 - a)): zero exactly when a is zero, where it
\* is 2 * atan2(0, 1)
HavC(a) == a

\* The value haversineMeters returns, R * c: zero, or the distance between the
\* two points, which is kept as the pair of points
haversineMeters(lat1, lon1, lat2, lon2) ==
    LET dLat == toRad(DblSub(lat2, lat1))
        dLon == toRad(DblSub(lon2, lon1))
        a    == HavA(dLat, dLon, lat1, lat2)
        c    == HavC(a)
    IN  IF c.k = "zero" THEN [zero |-> TRUE, from |-> <<>>, to |-> <<>>]
        ELSE [zero |-> FALSE, from |-> <<lat1, lon1>>, to |-> <<lat2, lon2>>]

HavIdle ==
    [pc |-> "idle", lat1 |-> Deg(0), lon1 |-> Deg(0), lat2 |-> Deg(0),
     lon2 |-> Deg(0), result |-> Null]

\* ------------------------------------------------------------ HomeScreen

\* -33.883869, 151.199111 as binary64
Lat_p3 == Dbl(TRUE, 142119247, 302984160)
Lon_p3 == Dbl(FALSE, 634175036, 68444544)

PLACES ==
    << [id |-> "p1", label |-> "iOS Sim Location", lat |-> Lat_p1, lon |-> Lon_p1],
       [id |-> "p2", label |-> "Sydney Opera", lat |-> Lat_p2, lon |-> Lon_p2],
       [id |-> "p3", label |-> "UTS Building 11", lat |-> Lat_p3, lon |-> Lon_p3] >>

PlaceIds == {PLACES[i].id : i \in 1..Len(PLACES)}

\* PLACES.find(p => p.id === selectedId) || null
selectedPlace ==
    IF \E i \in 1..Len(PLACES) : Some(PLACES[i].id) = selectedId
    THEN Some(PLACES[CHOOSE i \in 1..Len(PLACES) : Some(PLACES[i].id) = selectedId])
    ELSE Null

PrecisionInitial == 8

PrecisionTop == 12

PrecisionBottom == 5

\* The fixes the device delivers: the first place itself, and latitude 0,
\* longitude 0
Fixes ==
    { [lat |-> Lat_p1, lon |-> Lon_p1, acc |-> 5],
      [lat |-> Deg(0), lon |-> Deg(0), acc |-> 65] }

\* The messages of the errors the geolocation service or the permission
\* request reports
ErrorMessages == {"Location request timed out"}

\* The dependency list [coords, selectedPlace, precision]: a fix is a new
\* object each time, a place is one object of PLACES
DepsChanged_NoPrecision(newFix, oldCoords, newCoords, oldId, newId, oldPrecision, newPrecision) ==
    newFix \/ oldCoords # newCoords \/ oldId # newId

DepsChanged(newFix, oldCoords, newCoords, oldId, newId, oldPrecision, newPrecision) ==
    newFix \/ oldCoords # newCoords \/ oldId # newId
           \/ oldPrecision # newPrecision

InitHome ==
    /\ coords = Null
    /\ error = Null
    /\ loading = FALSE
    /\ selectedId = Null
    /\ precision = PrecisionInitial
    /\ userHash = Null
    /\ distanceM = Null
    /\ trueDistanceM = Null
    /\ task = "none"
    /\ effect = TRUE

\* The button is disabled while loading; the part of getLocation before the
\* first await
GetLocation ==
    /\ ~effect /\ ~loading /\ task = "none"
    /\ loading' = TRUE
    /\ error' = Null
    /\ coords' = Null
    /\ userHash' = Null
    /\ distanceM' = Null
    /\ task' = "permission"
    /\ effect' = DepsChanged(FALSE, coords, Null, selectedId, selectedId,
                             precision, precision)
    /\ UNCHANGED <<selectedId, precision, trueDistanceM>>
    /\ UNCHANGED <<geoVars, hav>>

\* requestAndroidPermission resolves: true off Android, else whether granted
PermissionResult ==
    /\ ~effect /\ task = "permission"
    /\ \E ok \in BOOLEAN :
          IF ok
          THEN /\ task' = "position"
               /\ UNCHANGED <<error, loading>>
          ELSE /\ error' = Some("Location permission denied")
               /\ loading' = FALSE
               /\ task' = "none"
    /\ UNCHANGED <<coords, selectedId, precision, userHash, distanceM,
                   trueDistanceM, effect>>
    /\ UNCHANGED <<geoVars, hav>>

\* The request rejects, or getCurrentPosition throws: the catch block
GetLocationCatch ==
    /\ ~effect /\ task = "permission"
    /\ \E e \in ErrorMessages : error' = Some(e)
    /\ loading' = FALSE
    /\ task' = "none"
    /\ UNCHANGED <<coords, selectedId, precision, userHash, distanceM,
                   trueDistanceM, effect>>
    /\ UNCHANGED <<geoVars, hav>>

\* The success callback of getCurrentPosition
PositionSuccess ==
    /\ ~effect /\ task = "position"
    /\ \E c \in Fixes :
          /\ coords' = Some(c)
          /\ effect' = DepsChanged(TRUE, coords, Some(c), selectedId,
                                   selectedId, precision, precision)
    /\ loading' = FALSE
    /\ task' = "none"
    /\ UNCHANGED <<error, selectedId, precision, userHash, distanceM,
                   trueDistanceM>>
    /\ UNCHANGED <<geoVars, hav>>

\* The error callback of getCurrentPosition
PositionError ==
    /\ ~effect /\ task = "position"
    /\ \E e \in ErrorMessages : error' = Some(e)
    /\ loading' = FALSE
    /\ task' = "none"
    /\ UNCHANGED <<coords, selectedId, precision, userHash, distanceM,
                   trueDistanceM, effect>>
    /\ UNCHANGED <<geoVars, hav>>

\* onPress={() => setSelectedId(place.id)}
SelectPlace ==
    /\ ~effect
    /\ \E id \in PlaceIds :
          /\ selectedId' = Some(id)
          /\ effect' = DepsChanged(FALSE, coords, coords, selectedId, Some(id),
                                   precision, precision)
    /\ UNCHANGED <<coords, error, loading, precision, userHash, distanceM,
                   trueDistanceM, task>>
    /\ UNCHANGED <<geoVars, hav>>

\* cyclePrecision; its button is disabled while loading
CyclePrecision ==
    /\ ~effect /\ ~loading
    /\ precision' = IF precision >= PrecisionTop THEN PrecisionBottom
                    ELSE precision + 1
    /\ effect' = DepsChanged(FALSE, coords, coords, selectedId, selectedId,
                             precision, precision')
    /\ UNCHANGED <<coords, error, loading, selectedId, userHash, distanceM,
                   trueDistanceM, task>>
    /\ UNCHANGED <<geoVars, hav>>

\* The center of a hash encodeGeohash returned
CenterOf(hash) == decodeGeohashCenter(hash).result[1]

\* The recompute effect
RecomputeEffect ==
    /\ effect
    /\ effect' = FALSE
    /\ IF coords = Null
       THEN UNCHANGED <<userHash, distanceM, trueDistanceM>>
       ELSE LET c    == coords[1]
                hash == encodeGeohash(c.lat, c.lon, precision)
            IN  /\ userHash' = Some(hash)
                /\ IF selectedPlace # Null
                   THEN LET place        == selectedPlace[1]
                            userCenter   == CenterOf(hash)
                            targetHash   == encodeGeohash(place.lat, place.lon, precision)
                            targetCenter == CenterOf(targetHash)
                        IN  /\ distanceM' =
                                  Some(haversineMeters(userCenter.lat, userCenter.lon,
                                                       targetCenter.lat, targetCenter.lon))
                            /\ trueDistanceM' =
                                  Some(haversineMeters(c.lat, c.lon, place.lat, place.lon))
                   ELSE /\ distanceM' = Null
                        /\ trueDistanceM' = Null
    /\ UNCHANGED <<coords, error, loading, selectedId, precision, task>>
    /\ UNCHANGED <<geoVars, hav>>

NextHome ==
    \/ GetLocation
    \/ PermissionResult
    \/ GetLocationCatch
    \/ PositionSuccess
    \/ PositionError
    \/ SelectPlace
    \/ CyclePrecision
    \/ RecomputeEffect

\* ------------------------------------------------------------ specifications

Init == enc = EncIdle /\ dec = DecIdle /\ hav = HavIdle /\ InitHome

EncodeCall ==
    /\ enc.pc = "idle" /\ dec.pc = "idle"
    /\ \E latitude \in LatInputs, longitude \in LonInputs, p \in PrecisionInputs :
          enc' = EncodeStart(latitude, longitude, p)
    /\ UNCHANGED <<dec, hav, homeVars>>

EncodeLoop ==
    /\ enc.pc = "loop" /\ EncodeLoopGuard(enc)
    /\ enc' = EncodeIteration(enc)
    /\ UNCHANGED <<dec, hav, homeVars>>

EncodeReturn ==
    /\ enc.pc = "loop" /\ ~EncodeLoopGuard(enc)
    /\ enc' = [enc EXCEPT !.pc = "returned"]
    /\ UNCHANGED <<dec, hav, homeVars>>

DecodeCall ==
    /\ enc.pc = "idle" /\ dec.pc = "idle"
    /\ \E hash \in HashInputs : dec' = DecodeStart(hash)
    /\ UNCHANGED <<enc, hav, homeVars>>

DecodeFor ==
    /\ dec.pc = "for"
    /\ dec' = DecodeNextChar(dec)
    /\ UNCHANGED <<enc, hav, homeVars>>

DecodeMask ==
    /\ dec.pc = "bits"
    /\ dec' = DecodeBit(dec)
    /\ UNCHANGED <<enc, hav, homeVars>>

NextGeohash ==
    \/ EncodeCall
    \/ EncodeLoop
    \/ EncodeReturn
    \/ DecodeCall
    \/ DecodeFor
    \/ DecodeMask

\* Calls of encodeGeohash and of decodeGeohashCenter, one loop iteration a step
SpecGeohash == Init /\ [][NextGeohash]_vars

DistLatInputs ==
    {Deg(-90), Lat_p2, Deg(0), Lat_p1, Deg(90)}
        \cup {Subnormal(n) : n \in (-MaxSub)..MaxSub}

DistLonInputs ==
    {Deg(-180), Lon_p1, Deg(0), Lon_p2, Deg(180)}
        \cup {Subnormal(n) : n \in (-MaxSub)..MaxSub}

HaversineCall ==
    /\ hav.pc = "idle"
    /\ \E lat1 \in DistLatInputs, lon1 \in DistLonInputs,
          lat2 \in DistLatInputs, lon2 \in DistLonInputs :
          hav' = [pc |-> "returned", lat1 |-> lat1, lon1 |-> lon1,
                  lat2 |-> lat2, lon2 |-> lon2,
                  result |-> Some(haversineMeters(lat1, lon1, lat2, lon2))]
    /\ UNCHANGED <<geoVars, homeVars>>

NextDistance == HaversineCall

\* Calls of haversineMeters
SpecDistance == Init /\ [][NextDistance]_vars

\* The HomeScreen component: its handlers, callbacks and effect
SpecHome == Init /\ [][NextHome]_vars

\* ------------------------------------------------------------ claims

\* The 32 symbols of the alphabet
Alphabet == {BASE32[i] : i \in 1..Len(BASE32)}

ValidLatitude(x) == DblLe(Deg(-90), x) /\ DblLe(x, Deg(90))

ValidLongitude(x) == DblLe(Deg(-180), x) /\ DblLe(x, Deg(180))

ValidCoordinate(lat, lon) == ValidLatitude(lat) /\ ValidLongitude(lon)

\* A call of encodeGeohash on a valid coordinate with a positive precision
ValidEncode == enc.pc # "idle"
               /\ ValidCoordinate(enc.latitude, enc.longitude)
               /\ enc.precision >= 1

\* A call of encodeGeohash that violates a precondition
InvalidEncode == enc.pc # "idle"
                 /\ ~(ValidCoordinate(enc.latitude, enc.longitude)
                      /\ enc.precision >= 1)

\* C1: for a valid coordinate and a precision p >= 1, encodeGeohash runs
\* exactly 5 * p iterations (so it terminates) and returns a string of length
\* p whose characters all belong to the 32-symbol alphabet.
C1_AlphabetClosure ==
    ValidEncode =>
        /\ enc.bit \in 0..4
        /\ enc.iter = 5 * Len(enc.geohash) + enc.bit
        /\ enc.iter <= 5 * enc.precision
        /\ \A i \in 1..Len(enc.geohash) : enc.geohash[i] \in Alphabet
        /\ (enc.pc = "returned" => /\ Len(enc.geohash) = enc.precision
                                   /\ enc.iter = 5 * enc.precision)

C1_Witness ==
    /\ enc.pc = "returned"
    /\ enc.latitude = Lat_p1 /\ enc.longitude = Lon_p1 /\ enc.precision = 12
    /\ enc.geohash = <<"9", "q", "8", "y", "y", "w", "d", "q", "7", "v", "b", "p">>

\* C2: for a valid coordinate and a precision p >= 1, the hash returned for
\* precision p is the first p characters of the hash for precision p + 1.
C2_PrefixMonotonicity ==
    (ValidEncode /\ enc.pc = "returned") =>
        SubSeq(encodeGeohash(enc.latitude, enc.longitude, enc.precision + 1),
               1, enc.precision) = enc.geohash

C2_Witness ==
    /\ enc.pc = "returned"
    /\ enc.latitude = Lat_p1 /\ enc.longitude = Lon_p1 /\ enc.precision = 5
    /\ enc.geohash = <<"9", "q", "8", "y", "y">>
    /\ encodeGeohash(Lat_p1, Lon_p1, 6) = <<"9", "q", "8", "y", "y", "w">>

\* Encoding the decoded center of the returned hash, at the same precision,
\* gives the returned hash again
RoundTrip ==
    LET d == decodeGeohashCenter(enc.geohash)
    IN  /\ d.pc = "returned"
        /\ encodeGeohash(d.result[1].lat, d.result[1].lon, enc.precision)
              = enc.geohash

\* C3 as stated: for a valid coordinate and every precision p >= 1, the
\* decoded center of the hash encodes to the same hash at precision p.
C3_RoundTripAnyPrecision ==
    (ValidEncode /\ enc.pc = "returned") => RoundTrip

\* C3, amended: for a valid coordinate and a precision 1 <= p <= 20, the
\* decoded center of the hash encodes to the same hash at precision p.
C3_RoundTripUpTo20 ==
    (ValidEncode /\ enc.pc = "returned" /\ enc.precision <= 20) => RoundTrip

C3_Witness ==
    /\ enc.pc = "returned"
    /\ enc.latitude = Deg(45) /\ enc.longitude = Lon_p2 /\ enc.precision = 20
    /\ RoundTrip

\* The positions of the characters of hash outside the alphabet
InvalidAt(hash) == {i \in 1..Len(hash) : hash[i] \notin Alphabet}

FirstInvalid(hash) ==
    CHOOSE i \in InvalidAt(hash) : \A j \in InvalidAt(hash) : i <= j

\* C4: when the hash holds a character outside the alphabet,
\* decodeGeohashCenter never returns and never holds a result: it gets no
\* further than the first such character, and there it throws the error that
\* names this character.
C4_RejectsInvalidCharacter ==
    (dec.pc # "idle" /\ InvalidAt(dec.hash) # {}) =>
        LET k == FirstInvalid(dec.hash)
        IN  /\ dec.result = Null
            /\ dec.pc # "returned"
            /\ dec.pos <= k
            /\ IF dec.pc = "threw"
               THEN /\ dec.pos = k
                    /\ dec.thrown = Some(InvalidCharacter(dec.hash[k]))
               ELSE dec.thrown = Null

C4_Witness ==
    /\ dec.pc = "threw"
    /\ dec.hash = <<"9", "a">>
    /\ dec.thrown = Some(InvalidCharacter("a"))
    /\ dec.lonMax # Deg(180)

\* C5: when the latitude or the longitude is out of range or the precision
\* is not positive, encodeGeohash signals an error before any bisection step
\* and returns no string.
C5_SignalsError ==
    InvalidEncode => (enc.pc # "returned" /\ enc.iter = 0)

\* The value and the midpoint of the axis the next iteration bisects
ActiveValue == IF enc.evenBit THEN enc.longitude ELSE enc.latitude

ActiveMid ==
    IF enc.evenBit THEN Mid(enc.lonMin, enc.lonMax)
    ELSE Mid(enc.latMin, enc.latMax)

\* An iteration of the encoder's loop
EncodeIterates == enc.pc = "loop" /\ enc'.pc = "loop" /\ enc'.iter = enc.iter + 1

C6_Tie ==
    (EncodeIterates /\ ActiveValue = ActiveMid) =>
        /\ enc'.lastBit = 0
        /\ IF enc.evenBit
           THEN enc'.lonMax = ActiveMid /\ enc'.lonMin = enc.lonMin
           ELSE enc'.latMax = ActiveMid /\ enc'.latMin = enc.latMin

C6_Origin ==
    (enc.pc # "idle" /\ enc.latitude = Deg(0) /\ enc.longitude = Deg(0)
        /\ enc.iter \in {1, 2}) => enc.lastBit = 0

\* C6: an iteration whose coordinate value equals the midpoint of the active
\* axis emits bit 0 and moves the upper bound of that axis, not the lower one,
\* to the midpoint; encoding latitude 0, longitude 0 emits 0 for the first
\* longitude bit and 0 for the first latitude bit.
C6_MidpointTakesZero == [][C6_Tie]_vars /\ []C6_Origin

C6_Witness ==
    /\ enc.pc = "loop" /\ enc.iter = 3
    /\ enc.longitude = Deg(90)
    /\ enc.lastBit = 0
    /\ enc.lonMin = Deg(0) /\ enc.lonMax = Deg(90)

C7_Same == hav.lat1 = hav.lat2 /\ hav.lon1 = hav.lon2

Below2ToMinus52(x) == x.hi = 0 /\ x.lo = 0

WholeEarth(b) ==
    /\ b.latMin = Deg(-90) /\ b.latMax = Deg(90)
    /\ b.lonMin = Deg(-180) /\ b.lonMax = Deg(180)

\* From box b to box c, an iteration on the axis evenBit names moves one bound
\* of that axis to its midpoint and leaves the three others; no bound widens
Narrows(b, c, evenBit) ==
    /\ IF evenBit
       THEN LET mid == Mid(b.lonMin, b.lonMax)
            IN  /\ \/ c.lonMin = mid /\ c.lonMax = b.lonMax
                   \/ c.lonMax = mid /\ c.lonMin = b.lonMin
                /\ c.latMin = b.latMin /\ c.latMax = b.latMax
       ELSE LET mid == Mid(b.latMin, b.latMax)
            IN  /\ \/ c.latMin = mid /\ c.latMax = b.latMax
                   \/ c.latMax = mid /\ c.latMin = b.latMin
                /\ c.lonMin = b.lonMin /\ c.lonMax = b.lonMax
    /\ DblLe(b.latMin, c.latMin) /\ DblLe(c.latMax, b.latMax)
    /\ DblLe(b.lonMin, c.lonMin) /\ DblLe(c.lonMax, b.lonMax)

C8_Box ==
    /\ (enc.pc # "idle" /\ enc.iter = 0) => WholeEarth(enc)
    /\ (enc.pc # "idle" /\ ValidCoordinate(enc.latitude, enc.longitude)) =>
          /\ DblLe(enc.latMin, enc.latitude) /\ DblLe(enc.latitude, enc.latMax)
          /\ DblLe(enc.lonMin, enc.longitude) /\ DblLe(enc.longitude, enc.lonMax)
    /\ (dec.pc = "for" /\ dec.pos = 1) => WholeEarth(dec)

C8_Step ==
    /\ (EncodeIterates /\ ValidCoordinate(enc.latitude, enc.longitude)) =>
          Narrows(enc, enc', enc.evenBit)
    /\ (dec.pc = "bits" /\ dec' # dec) => Narrows(dec, dec', dec.evenBit)

\* C8: the box of encodeGeohash starts as the whole Earth, every iteration
\* on a valid coordinate moves one bound of the active axis to the midpoint
\* without widening the box, and the box always contains the coordinate;
\* every step of decodeGeohashCenter narrows its box the same way.
C8_BoxNarrows == []C8_Box /\ [][C8_Step]_vars

C8_Witness ==
    /\ enc.pc = "loop" /\ enc.iter = 10
    /\ enc.latitude = Lat_p1 /\ enc.longitude = Lon_p1
    /\ DblGt(enc.latMin, Deg(-90)) /\ DblGt(Deg(90), enc.latMax)
    /\ DblGt(enc.lonMin, Deg(-180)) /\ DblGt(Deg(180), enc.lonMax)
    /\ DblLe(enc.latMin, enc.latitude) /\ DblLe(enc.latitude, enc.latMax)

\* C9: when coords is set and the recompute effect has run, userHash is the
\* hash of coords at the current precision; with a place selected, distanceM
\* is the distance between the decoded centers of the user's hash and of the
\* place's hash at the current precision and trueDistanceM the distance
\* between coords and the place; with no place selected both are null.
C9_RecomputeIsCurrent ==
    (coords # Null /\ ~effect) =>
        LET c    == coords[1]
            hash == encodeGeohash(c.lat, c.lon, precision)
        IN  /\ userHash = Some(hash)
            /\ IF selectedPlace # Null
               THEN LET place  == selectedPlace[1]
                        uc     == CenterOf(hash)
                        tc     == CenterOf(encodeGeohash(place.lat, place.lon, precision))
                    IN  /\ distanceM = Some(haversineMeters(uc.lat, uc.lon, tc.lat, tc.lon))
                        /\ trueDistanceM =
                              Some(haversineMeters(c.lat, c.lon, place.lat, place.lon))
               ELSE distanceM = Null /\ trueDistanceM = Null

C9_Witness ==
    /\ coords # Null /\ ~effect
    /\ selectedId = Some("p2")
    /\ precision = PrecisionBottom
    /\ distanceM # Null /\ trueDistanceM # Null
    /\ ~distanceM[1].zero

\* C10: once the pending effect has run, distanceM is null exactly when
\* trueDistanceM is null.
C10_DistancesConsistent ==
    ~effect => ((distanceM = Null) <=> (trueDistanceM = Null))

====
